---- MODULE Spec2Model ----
(***************************************************************************)
(* Math Tug-of-War: the round engine (GameState, ScoreManager,             *)
(* QuestionGenerator) and the controller MathTugOfWar that drives it from  *)
(* DOM events, a setInterval countdown and a setTimeout next-question      *)
(* delay.  One action per event handler or timer callback; a handler runs  *)
(* to completion (JavaScript's single thread), so each action is the whole *)
(* handler.                                                                *)
(***************************************************************************)
EXTENDS Integers, Sequences, FiniteSets, TLC

(***************************************************************************)
(* Bounds of the model (not program constants).                            *)
(***************************************************************************)
\* cap on stats.totalQuestions: a resolution runs only while it fits
MaxTotal == 6
\* cap on the number of next-question callbacks pending at once
MaxPending == 2
\* Math.random() is drawn as k / RandDen, k in 0 .. RandDen-1
RandDen == 4

(***************************************************************************)
(* Program constants.                                                      *)
(***************************************************************************)
WIN_THRESHOLD == 8
CORRECT_PULL_STRENGTH == 2
WRONG_PULL_STRENGTH == 1
RopeMin == -10
RopeMax == 10
TimerValueMin == 5
TimerValueMax == 60
QuestionLimitMin == 5
QuestionLimitMax == 100
DefaultTimerValue == 20
DefaultQuestionLimit == 40

(***************************************************************************)
(* JavaScript values.  A value that may be null, undefined, a string or a  *)
(* number is a tagged record, so that any two compare.  A string is a      *)
(* sequence of one-character strings.  A winner is the string "player1",   *)
(* "player2" or, for null, NoWinner; timerInterval is an interval id > 0   *)
(* or, for null, 0.                                                        *)
(***************************************************************************)
JsNull == [type |-> "null"]
JsUndefined == [type |-> "undefined"]
Str(chars) == [type |-> "string", chars |-> chars]
Num(n) == [type |-> "number", val |-> n]
NoWinner == "none"

VARIABLES
    \* GameState
    currentPlayer, ropePosition, scores, settings, gameStatus,
    currentQuestion, stats,
    \* ScoreManager.scores
    smScores,
    \* MathTugOfWar: the interval handle and the seconds left
    timerInterval, timeRemaining,
    \* the browser: the intervals setInterval registered and clearInterval
    \* has not cleared; the pending setTimeout next-question callbacks, oldest
    \* first (each entry is a history tag, see LeftPlaying and AfterReset)
    liveIntervals, nextTimeouts,
    \* the DOM: startBtn.disabled, the settings controls' disabled, and the
    \* win overlay ("hidden" or the winner it shows)
    startBtnDisabled, settingsDisabled, winOverlay,
    \* SoundManager.enabled
    soundManagerEnabled,
    \* history: the resolution sequences run in this round, and those run
    \* for the question now presented
    resolved, answered

vars == <<currentPlayer, ropePosition, scores, settings, gameStatus,
          currentQuestion, stats, smScores, timerInterval, timeRemaining,
          liveIntervals, nextTimeouts, startBtnDisabled,
          soundManagerEnabled, settingsDisabled,
          winOverlay, resolved, answered>>

\* the GameState fields and the ScoreManager scores that make up the round
roundVars == <<currentPlayer, ropePosition, scores, gameStatus,
               currentQuestion, stats, smScores>>

(***************************************************************************)
(* GameState.reset's defaults.                                             *)
(***************************************************************************)
DefaultSettings ==
    [difficulty |-> "medium", operation |-> "mixed", timerEnabled |-> TRUE,
     timerValue |-> DefaultTimerValue, soundEnabled |-> TRUE,
     questionLimitEnabled |-> FALSE, questionLimit |-> DefaultQuestionLimit,
     teacherMode |-> "undefined"]

DefaultQuestion == [text |-> <<>>, answer |-> JsNull, operation |-> ""]

DefaultStats ==
    [totalQuestions |-> 0, correctAnswers |-> 0, wrongAnswers |-> 0,
     timeouts |-> 0]

DefaultScores == [player1 |-> 0, player2 |-> 0]

(***************************************************************************)
(* GameState's transition operations, as functions of the fields they read.*)
(***************************************************************************)
Max(a, b) == IF a >= b THEN a ELSE b
Min(a, b) == IF a <= b THEN a ELSE b

\* mutant: the clamping line is missing
ClampNone(pos) == pos

\* Math.max(-10, Math.min(10, ropePosition))
Clamp(pos) == Max(RopeMin, Min(RopeMax, pos))

\* mutant: a wrong answer pulls toward the player who gave it
UpdateRopePositionWrongTowardSelf(pos, player, isCorrect) ==
    LET direction == IF player = 1 THEN -1 ELSE 1
        strength == IF isCorrect THEN CORRECT_PULL_STRENGTH
                                 ELSE WRONG_PULL_STRENGTH
    IN  Clamp(pos + direction * strength)

UpdateRopePosition(pos, player, isCorrect) ==
    LET direction == IF player = 1 THEN -1 ELSE 1
        strength == IF isCorrect THEN CORRECT_PULL_STRENGTH
                                 ELSE WRONG_PULL_STRENGTH
    IN  Clamp(IF isCorrect THEN pos + direction * strength
                           ELSE pos - direction * strength)

SwitchPlayer(player) == IF player = 1 THEN 2 ELSE 1

\* mutant: "else if (isCorrect)" written as "if (isCorrect)", so that a
\* timeout is also counted as a wrong answer by the same call
UpdateStatsDropElse(st, isCorrect, isTimeout) ==
    LET st1 == [st EXCEPT !.totalQuestions = @ + 1]
        st2 == IF isTimeout THEN [st1 EXCEPT !.timeouts = @ + 1] ELSE st1
    IN  IF isCorrect THEN [st2 EXCEPT !.correctAnswers = @ + 1]
        ELSE [st2 EXCEPT !.wrongAnswers = @ + 1]

UpdateStats(st, isCorrect, isTimeout) ==
    LET st1 == [st EXCEPT !.totalQuestions = @ + 1]
    IN  IF isTimeout THEN [st1 EXCEPT !.timeouts = @ + 1]
        ELSE IF isCorrect THEN [st1 EXCEPT !.correctAnswers = @ + 1]
        ELSE [st1 EXCEPT !.wrongAnswers = @ + 1]

\* mutant: the threshold compared with < and > instead of <= and >=
CheckWinConditionStrict(pos) ==
    IF pos < -WIN_THRESHOLD THEN "player1"
    ELSE IF pos > WIN_THRESHOLD THEN "player2"
    ELSE NoWinner

\* mutant: only player 1's side of the rope is checked
CheckWinConditionLeftOnly(pos) ==
    IF pos <= -WIN_THRESHOLD THEN "player1" ELSE NoWinner

CheckWinCondition(pos) ==
    IF pos <= -WIN_THRESHOLD THEN "player1"
    ELSE IF pos >= WIN_THRESHOLD THEN "player2"
    ELSE NoWinner

(***************************************************************************)
(* ScoreManager.                                                           *)
(***************************************************************************)
\* mutant: the points go to the other player
UpdateScoreOther(sc, player, points) ==
    IF player = 1 THEN [sc EXCEPT !.player2 = @ + points]
    ELSE IF player = 2 THEN [sc EXCEPT !.player1 = @ + points]
    ELSE sc

UpdateScore(sc, player, points) ==
    IF player = 1 THEN [sc EXCEPT !.player1 = @ + points]
    ELSE IF player = 2 THEN [sc EXCEPT !.player2 = @ + points]
    ELSE sc

\* mutant: the second comparison written >=, so that a tie goes to player 2
DetermineWinnerNoTie(sc) ==
    IF sc.player1 > sc.player2 THEN "player1"
    ELSE IF sc.player2 >= sc.player1 THEN "player2"
    ELSE "tie"

DetermineWinner(sc) ==
    IF sc.player1 > sc.player2 THEN "player1"
    ELSE IF sc.player2 > sc.player1 THEN "player2"
    ELSE "tie"

(***************************************************************************)
(* QuestionGenerator.  A draw of Math.random() is the numerator k of       *)
(* k / RandDen; Math.floor(Math.random() * n) is then (k * n) \div RandDen.*)
(***************************************************************************)
RandomDraws == 0 .. (RandDen - 1)

Digits == <<"0", "1", "2", "3", "4", "5", "6", "7", "8", "9">>

\* Math.floor(Math.random() * n)
FloorRandom(k, n) == (k * n) \div RandDen

\* this.difficultyRanges[difficulty] || this.difficultyRanges.medium
DifficultyRange(difficulty) ==
    IF difficulty = "easy" THEN [min |-> 1, max |-> 10]
    ELSE IF difficulty = "hard" THEN [min |-> 1, max |-> 100]
    ELSE [min |-> 1, max |-> 50]

GetRandomOperation(k) ==
    <<"addition", "subtraction", "multiplication", "division">>
        [FloorRandom(k, 4) + 1]

GetRandomNumber(difficulty, k) ==
    LET range == DifficultyRange(difficulty)
    IN  FloorRandom(k, range.max - range.min + 1) + range.min

\* the decimal numeral of the natural number n, as `${n}` writes it
RECURSIVE Numeral(_)
Numeral(n) ==
    IF n < 10 THEN <<Digits[n + 1]>>
    ELSE Append(Numeral(n \div 10), Digits[(n % 10) + 1])

\* the template literal `${a} <symbol> ${b}`
QuestionText(a, symbol, b) == Numeral(a) \o <<" ", symbol, " ">> \o Numeral(b)

GenerateAddition(difficulty, k1, k2) ==
    LET a == GetRandomNumber(difficulty, k1)
        b == GetRandomNumber(difficulty, k2)
    IN  [text |-> QuestionText(a, "+", b), answer |-> Num(a + b),
         operation |-> "addition"]

\* mutant: the operands are not swapped when a < b
GenerateSubtractionNoSwap(difficulty, k1, k2) ==
    LET a == GetRandomNumber(difficulty, k1)
        b == GetRandomNumber(difficulty, k2)
    IN  [text |-> QuestionText(a, "-", b), answer |-> Num(a - b),
         operation |-> "subtraction"]

GenerateSubtraction(difficulty, k1, k2) ==
    LET a0 == GetRandomNumber(difficulty, k1)
        b0 == GetRandomNumber(difficulty, k2)
        a == IF a0 < b0 THEN b0 ELSE a0
        b == IF a0 < b0 THEN a0 ELSE b0
    IN  [text |-> QuestionText(a, "-", b), answer |-> Num(a - b),
         operation |-> "subtraction"]

GenerateMultiplication(difficulty, k1, k2) ==
    LET a == IF difficulty = "easy" THEN FloorRandom(k1, 10) + 1
             ELSE IF difficulty = "medium" THEN FloorRandom(k1, 12) + 1
             ELSE FloorRandom(k1, 20) + 1
        b == IF difficulty = "easy" THEN FloorRandom(k2, 10) + 1
             ELSE IF difficulty = "medium" THEN FloorRandom(k2, 10) + 1
             ELSE FloorRandom(k2, 20) + 1
    IN  [text |-> QuestionText(a, "x", b), answer |-> Num(a * b),
         operation |-> "multiplication"]

\* mutant: the divisor drawn from 1 instead of 2
GenerateDivisionFromOne(difficulty, k1, k2) ==
    LET divisor == IF difficulty = "hard" THEN FloorRandom(k1, 12) + 1
                   ELSE FloorRandom(k1, 9) + 1
        quotient == IF difficulty = "easy" THEN FloorRandom(k2, 10) + 1
                    ELSE IF difficulty = "medium" THEN FloorRandom(k2, 20) + 1
                    ELSE FloorRandom(k2, 30) + 1
        dividend == divisor * quotient
    IN  [text |-> QuestionText(dividend, "/", divisor),
         answer |-> Num(quotient), operation |-> "division"]

GenerateDivision(difficulty, k1, k2) ==
    LET divisor == IF difficulty = "easy" THEN FloorRandom(k1, 9) + 2
                   ELSE IF difficulty = "medium" THEN FloorRandom(k1, 9) + 2
                   ELSE FloorRandom(k1, 12) + 2
        quotient == IF difficulty = "easy" THEN FloorRandom(k2, 10) + 1
                    ELSE IF difficulty = "medium" THEN FloorRandom(k2, 20) + 1
                    ELSE FloorRandom(k2, 30) + 1
        dividend == divisor * quotient
    IN  [text |-> QuestionText(dividend, "/", divisor),
         answer |-> Num(quotient), operation |-> "division"]

\* k0 is the draw _getRandomOperation makes (mixed only); k1, k2 the operands'
GenerateQuestion(operation, difficulty, k0, k1, k2) ==
    LET selectedOp == IF operation = "mixed" THEN GetRandomOperation(k0)
                      ELSE operation
    IN  IF selectedOp = "subtraction"
            THEN GenerateSubtraction(difficulty, k1, k2)
        ELSE IF selectedOp = "multiplication"
            THEN GenerateMultiplication(difficulty, k1, k2)
        ELSE IF selectedOp = "division"
            THEN GenerateDivision(difficulty, k1, k2)
        ELSE GenerateAddition(difficulty, k1, k2)

(***************************************************************************)
(* Number(userAnswer), for strings over the digits, ".", "+", "-", " " and *)
(* the letter "a".  Number() trims white space, reads the empty string as  *)
(* 0 and an optional sign, digits and an optional fraction as their value; *)
(* anything else is NaN.  The result is NaN or Fixed(u), the number        *)
(* u / 10^FracDigits (5.001 is Fixed(5001)); a fraction longer than        *)
(* FracDigits is outside the modelled inputs.                              *)
(***************************************************************************)
FracDigits == 3

RECURSIVE Pow10(_)
Pow10(n) == IF n = 0 THEN 1 ELSE 10 * Pow10(n - 1)

Scale == Pow10(FracDigits)

NaN == [nan |-> TRUE]
Fixed(u) == [nan |-> FALSE, units |-> u]

IsDigit(c) == \E i \in 1 .. 10 : Digits[i] = c

DigitVal(c) == (CHOOSE i \in 1 .. 10 : Digits[i] = c) - 1

AllDigits(s) == \A i \in 1 .. Len(s) : IsDigit(s[i])

RECURSIVE DigitsValue(_)
DigitsValue(s) ==
    IF s = <<>> THEN 0
    ELSE 10 * DigitsValue(SubSeq(s, 1, Len(s) - 1)) + DigitVal(s[Len(s)])

RECURSIVE TrimLeft(_)
TrimLeft(s) ==
    IF s # <<>> /\ Head(s) = " " THEN TrimLeft(Tail(s)) ELSE s

RECURSIVE TrimRight(_)
TrimRight(s) ==
    IF s # <<>> /\ s[Len(s)] = " " THEN TrimRight(SubSeq(s, 1, Len(s) - 1))
    ELSE s

ParseUnsigned(s) ==
    LET dots == {i \in 1 .. Len(s) : s[i] = "."}
    IN  IF dots = {}
        THEN IF s # <<>> /\ AllDigits(s) THEN Fixed(DigitsValue(s) * Scale)
             ELSE NaN
        ELSE LET d == CHOOSE i \in dots : \A j \in dots : i <= j
                 ip == SubSeq(s, 1, d - 1)
                 fp == SubSeq(s, d + 1, Len(s))
             IN  IF /\ AllDigits(ip) /\ AllDigits(fp)
                    /\ (ip # <<>> \/ fp # <<>>)
                    /\ Len(fp) <= FracDigits
                 THEN Fixed(DigitsValue(ip) * Scale
                            + DigitsValue(fp) * Pow10(FracDigits - Len(fp)))
                 ELSE NaN

ToNumber(chars) ==
    LET s == TrimRight(TrimLeft(chars))
    IN  IF s = <<>> THEN Fixed(0)
        ELSE IF Head(s) = "-"
             THEN LET u == ParseUnsigned(Tail(s))
                  IN  IF u.nan THEN NaN ELSE Fixed(0 - u.units)
        ELSE IF Head(s) = "+" THEN ParseUnsigned(Tail(s))
        ELSE ParseUnsigned(s)

Abs(x) == IF x < 0 THEN 0 - x ELSE x

(***************************************************************************)
(* numericAnswer - correctAnswer in IEEE-754 doubles.  correctAnswer is an *)
(* integer n and numericAnswer the double nearest to the decimal d typed.  *)
(* The subtraction is exact, so the difference is d - n plus the error of  *)
(* rounding d to 53 bits, which is far smaller than 10^-FracDigits: it     *)
(* decides the comparison with 0.01 only when |d - n| is exactly 0.01.     *)
(* There d = n +/- 1/100 lies in [2^e, 2^(e+1)); in units of its last bit  *)
(* the fraction cut off is ((100n +/- 1) * 2^(52-e) mod 100) / 100, that   *)
(* is r/100 above n and (100-r)/100 below n for r = 2^(52-e) mod 100.  For *)
(* r < 50 the double is rounded toward n and the difference comes out      *)
(* below the double 0.01 (which is itself a little above 1/100); for       *)
(* r > 50 it comes out above.  For n = 0 the difference is the double 0.01 *)
(* itself, which is not below 0.01.                                        *)
(***************************************************************************)
MantissaBits == 52

RECURSIVE Log2Floor(_)
Log2Floor(x) == IF x < 2 THEN 0 ELSE 1 + Log2Floor(x \div 2)

RECURSIVE Pow2Mod100(_)
Pow2Mod100(k) == IF k = 0 THEN 1 ELSE (2 * Pow2Mod100(k - 1)) % 100

\* d = units / Scale, at least 1/2: is the double nearest to d on the side
\* of d where the integer at distance 0.01 lies?
RoundsTowardInteger(units) ==
    LET e == IF units >= Scale THEN Log2Floor(units \div Scale) ELSE -1
    IN  Pow2Mod100(MantissaBits - e) < 50

\* userAnswer is Str(..), JsNull or JsUndefined; correctAnswer is Num(..) or
\* the default question's JsNull, which the subtraction reads as 0.  The
\* tolerance 0.01 is Scale \div 100 units.
ValidateAnswer(userAnswer, correctAnswer) ==
    IF userAnswer = Str(<<>>) \/ userAnswer = JsNull
       \/ userAnswer = JsUndefined
    THEN FALSE
    ELSE LET numericAnswer == ToNumber(userAnswer.chars)
             expected == IF correctAnswer = JsNull THEN 0
                         ELSE correctAnswer.val * Scale
             diff == Abs(numericAnswer.units - expected)
         IN  IF numericAnswer.nan THEN FALSE
             ELSE IF diff # Scale \div 100 THEN diff < Scale \div 100
             ELSE expected # 0 /\ RoundsTowardInteger(numericAnswer.units)

(***************************************************************************)
(* parseInt(e.target.value): leading white space, an optional sign and the *)
(* longest run of digits; NaN when there is no digit.                      *)
(***************************************************************************)
Int32(v) == [nan |-> FALSE, val |-> v]

RECURSIVE DigitPrefix(_)
DigitPrefix(s) ==
    IF s # <<>> /\ IsDigit(Head(s)) THEN <<Head(s)>> \o DigitPrefix(Tail(s))
    ELSE <<>>

ParseInt(chars) ==
    LET s == TrimLeft(chars)
        signed == s # <<>> /\ Head(s) \in {"-", "+"}
        body == DigitPrefix(IF signed THEN Tail(s) ELSE s)
    IN  IF body = <<>> THEN NaN
        ELSE IF signed /\ Head(s) = "-" THEN Int32(0 - DigitsValue(body))
        ELSE Int32(DigitsValue(body))

(***************************************************************************)
(* The countdown.  A timer state is [handle, live, remaining]: the         *)
(* controller's timerInterval and timeRemaining, and the browser's set of  *)
(* live intervals.                                                         *)
(***************************************************************************)
TimerNow ==
    [handle |-> timerInterval, live |-> liveIntervals,
     remaining |-> timeRemaining]

\* the id setInterval returns: one no live interval has
NewIntervalId(live) ==
    CHOOSE i \in 1 .. (Cardinality(live) + 1) :
        i \notin live /\ \A j \in 1 .. (i - 1) : j \in live

StopTimer(t) ==
    IF t.handle # 0
    THEN [t EXCEPT !.live = @ \ {t.handle}, !.handle = 0]
    ELSE t

\* mutant: startTimer without its leading stopTimer()
StartTimerNoStop(t, timerValue) ==
    LET id == NewIntervalId(t.live)
    IN  [handle |-> id, live |-> t.live \cup {id}, remaining |-> timerValue]

StartTimer(t, timerValue) ==
    LET stopped == StopTimer(t)
        id == NewIntervalId(stopped.live)
    IN  [handle |-> id, live |-> stopped.live \cup {id},
         remaining |-> timerValue]

SetTimer(t) ==
    /\ timerInterval' = t.handle
    /\ liveIntervals' = t.live
    /\ timeRemaining' = t.remaining

(***************************************************************************)
(* The pending next-question callbacks.  setTimeout callbacks of equal     *)
(* delay run in the order they were scheduled, so the queue is a sequence. *)
(* The program keeps no handle on them; each entry is a history tag:       *)
(* "fresh" while the status has been playing ever since it was scheduled,  *)
(* "left" once the status has left playing, "reset" once resetGame ran.    *)
(***************************************************************************)
LeftPlaying(queue) ==
    [i \in 1 .. Len(queue) |-> IF queue[i] = "fresh" THEN "left" ELSE queue[i]]

AfterReset(queue) == [i \in 1 .. Len(queue) |-> "reset"]

(***************************************************************************)
(* The environment's inputs.                                               *)
(***************************************************************************)
\* the draws Math.random() makes during a round
RoundDraws == {RandDen - 1}

\* what the user has typed when a submit arrives: nothing, a non-number,
\* the right answer, a wrong one
RawInputs(answer) ==
    LET n == IF answer = JsNull THEN 0 ELSE answer.val
    IN  {Str(<<>>), Str(<<"a">>), Str(Numeral(n)), Str(Numeral(n + 1))}

TimerValueInputs ==
    {<<>>, <<"a">>, <<"4">>, <<"5">>, <<"6", "1">>, <<"6", "0", ".", "5">>}

QuestionLimitInputs == {<<>>, <<"a">>, <<"4">>, <<"5">>, <<"1", "0", "1">>}

(***************************************************************************)
(* MathTugOfWar.                                                           *)
(***************************************************************************)
Init ==
    /\ currentPlayer = 1
    /\ ropePosition = 0
    /\ scores = DefaultScores
    /\ settings = DefaultSettings
    /\ gameStatus = "idle"
    /\ currentQuestion = DefaultQuestion
    /\ stats = DefaultStats
    /\ smScores = DefaultScores
    /\ timerInterval = 0
    /\ timeRemaining = 0
    /\ liveIntervals = {}
    /\ nextTimeouts = <<>>
    /\ startBtnDisabled = FALSE
    /\ soundManagerEnabled = TRUE
    /\ settingsDisabled = FALSE
    /\ winOverlay = "hidden"
    /\ resolved = 0
    /\ answered = 0

\* nextQuestion() under settings set and timer state t, with the draws k0
\* (the mixed operation) and k1, k2 (the operands)
NextQuestion(set, t, k0, k1, k2) ==
    /\ currentQuestion' =
           GenerateQuestion(set.operation, set.difficulty, k0, k1, k2)
    /\ answered' = 0
    /\ SetTimer(IF set.timerEnabled THEN StartTimer(t, set.timerValue) ELSE t)

\* startGame(), its first question drawn from draws
StartGameWith(draws) ==
    /\ ~startBtnDisabled
    /\ settingsDisabled' = TRUE
    /\ gameStatus' = "playing"
    /\ \E k0, k1, k2 \in draws : NextQuestion(settings, TimerNow, k0, k1, k2)
    /\ startBtnDisabled' = TRUE
    /\ UNCHANGED soundManagerEnabled
    /\ UNCHANGED <<currentPlayer, ropePosition, scores, settings, stats,
                   smScores, nextTimeouts, winOverlay, resolved>>

StartGame == StartGameWith(RoundDraws)

\* handleWin(winner) with the timer state t
HandleWin(winner, t) ==
    /\ gameStatus' = "ended"
    /\ SetTimer(StopTimer(t))
    /\ winOverlay' = winner

\* the question-limit check of processAnswer: the winner it ends the round
\* with, or NoWinner
LimitWinner(st, sc, set) ==
    IF set.questionLimitEnabled /\ st.totalQuestions >= set.questionLimit
    THEN IF DetermineWinner(sc) = "tie" THEN NoWinner ELSE DetermineWinner(sc)
    ELSE NoWinner

\* mutant: the question limit is checked before the rope
ProcessAnswerLimitFirst(isCorrect, st, t) ==
    LET st1 == UpdateStats(st, isCorrect, FALSE)
        sc1 == IF isCorrect THEN UpdateScore(smScores, currentPlayer, 1)
               ELSE smScores
        pos1 == UpdateRopePosition(ropePosition, currentPlayer, isCorrect)
        winner == CheckWinCondition(pos1)
        ender == IF LimitWinner(st1, sc1, settings) # NoWinner
                 THEN LimitWinner(st1, sc1, settings)
                 ELSE winner
    IN  /\ stats' = st1
        /\ smScores' = sc1
        /\ ropePosition' = pos1
        /\ resolved' = resolved + 1
        /\ answered' = answered + 1
        /\ IF ender # NoWinner
           THEN /\ HandleWin(ender, t)
                /\ nextTimeouts' = LeftPlaying(nextTimeouts)
                /\ UNCHANGED currentPlayer
           ELSE /\ currentPlayer' = SwitchPlayer(currentPlayer)
                /\ nextTimeouts' = Append(nextTimeouts, "fresh")
                /\ SetTimer(t)
                /\ UNCHANGED <<gameStatus, winOverlay>>
        /\ UNCHANGED <<scores, settings, currentQuestion, startBtnDisabled,
                       soundManagerEnabled,
                       settingsDisabled>>

\* processAnswer(isCorrect), entered with the stats st and the timer state t
ProcessAnswer(isCorrect, st, t) ==
    LET st1 == UpdateStats(st, isCorrect, FALSE)
        sc1 == IF isCorrect THEN UpdateScore(smScores, currentPlayer, 1)
               ELSE smScores
        pos1 == UpdateRopePosition(ropePosition, currentPlayer, isCorrect)
        winner == CheckWinCondition(pos1)
        ender == IF winner # NoWinner THEN winner
                 ELSE LimitWinner(st1, sc1, settings)
    IN  /\ stats' = st1
        /\ smScores' = sc1
        /\ ropePosition' = pos1
        /\ resolved' = resolved + 1
        /\ answered' = answered + 1
        /\ IF ender # NoWinner
           THEN /\ HandleWin(ender, t)
                /\ nextTimeouts' = LeftPlaying(nextTimeouts)
                /\ UNCHANGED currentPlayer
           ELSE /\ currentPlayer' = SwitchPlayer(currentPlayer)
                /\ nextTimeouts' = Append(nextTimeouts, "fresh")
                /\ SetTimer(t)
                /\ UNCHANGED <<gameStatus, winOverlay>>
        /\ UNCHANGED <<scores, settings, currentQuestion, startBtnDisabled,
                       soundManagerEnabled,
                       settingsDisabled>>

\* mutant: the status check of handleSubmit is missing
HandleSubmitUnguarded(userAnswer) ==
    /\ stats.totalQuestions < MaxTotal
    /\ Len(nextTimeouts) < MaxPending
    /\ ProcessAnswer(ValidateAnswer(userAnswer, currentQuestion.answer),
                     stats, StopTimer(TimerNow))

HandleSubmit(userAnswer) ==
    /\ IF gameStatus # "playing"
       THEN UNCHANGED <<currentPlayer, ropePosition, scores, settings,
                        gameStatus, currentQuestion, stats, smScores,
                        timerInterval, timeRemaining, liveIntervals,
                        nextTimeouts, startBtnDisabled,
                        soundManagerEnabled, settingsDisabled,
                        winOverlay, resolved, answered>>
       ELSE /\ stats.totalQuestions < MaxTotal
            /\ Len(nextTimeouts) < MaxPending
            /\ ProcessAnswer(
                   ValidateAnswer(userAnswer, currentQuestion.answer),
                   stats, StopTimer(TimerNow))

\* mutant: handleTimeout without its updateStats(false, true)
HandleTimeoutAsWrong(t) ==
    /\ stats.totalQuestions + 2 <= MaxTotal
    /\ Len(nextTimeouts) < MaxPending
    /\ ProcessAnswer(FALSE, stats, StopTimer(t))

\* handleTimeout(), entered with the timer state t
HandleTimeout(t) ==
    /\ stats.totalQuestions + 2 <= MaxTotal
    /\ Len(nextTimeouts) < MaxPending
    /\ ProcessAnswer(FALSE, UpdateStats(stats, FALSE, TRUE), StopTimer(t))

\* the setInterval callback of a live interval
TimerTick ==
    /\ liveIntervals # {}
    /\ LET t == [TimerNow EXCEPT !.remaining = @ - 1]
       IN  IF t.remaining <= 0
           THEN HandleTimeout(t)
           ELSE /\ SetTimer(t)
                /\ UNCHANGED <<currentPlayer, ropePosition, scores, settings,
                               gameStatus, currentQuestion, stats, smScores,
                               nextTimeouts, startBtnDisabled,
                               soundManagerEnabled,
                               settingsDisabled, winOverlay, resolved,
                               answered>>

\* the setTimeout callback of processAnswer, 2000 ms after it was scheduled
NextQuestionCallback ==
    /\ nextTimeouts # <<>>
    /\ nextTimeouts' = Tail(nextTimeouts)
    /\ IF gameStatus = "playing"
       THEN \E k0, k1, k2 \in RoundDraws :
                NextQuestion(settings, TimerNow, k0, k1, k2)
       ELSE UNCHANGED <<currentQuestion, answered, timerInterval,
                        timeRemaining, liveIntervals>>
    /\ UNCHANGED <<currentPlayer, ropePosition, scores, settings, gameStatus,
                   stats, smScores, startBtnDisabled,
                   soundManagerEnabled, settingsDisabled,
                   winOverlay, resolved>>

\* mutant: the second branch of togglePause is a plain else, so that the
\* button resumes from any status but playing
TogglePauseAnyStatus ==
    /\ IF gameStatus = "playing"
       THEN /\ gameStatus' = "paused"
            /\ SetTimer(StopTimer(TimerNow))
            /\ nextTimeouts' = LeftPlaying(nextTimeouts)
       ELSE /\ gameStatus' = "playing"
            /\ SetTimer(IF settings.timerEnabled
                        THEN StartTimer(TimerNow, settings.timerValue)
                        ELSE TimerNow)
            /\ UNCHANGED nextTimeouts
    /\ UNCHANGED <<currentPlayer, ropePosition, scores, settings,
                   currentQuestion, stats, smScores, startBtnDisabled,
                   soundManagerEnabled,
                   settingsDisabled, winOverlay, resolved, answered>>

\* mutant: resume starts the countdown again at the time that remained
TogglePauseContinue ==
    /\ IF gameStatus = "playing"
       THEN /\ gameStatus' = "paused"
            /\ SetTimer(StopTimer(TimerNow))
            /\ nextTimeouts' = LeftPlaying(nextTimeouts)
       ELSE IF gameStatus = "paused"
       THEN /\ gameStatus' = "playing"
            /\ SetTimer(IF settings.timerEnabled
                        THEN StartTimer(TimerNow, timeRemaining)
                        ELSE TimerNow)
            /\ UNCHANGED nextTimeouts
       ELSE UNCHANGED <<gameStatus, timerInterval, timeRemaining,
                        liveIntervals, nextTimeouts>>
    /\ UNCHANGED <<currentPlayer, ropePosition, scores, settings,
                   currentQuestion, stats, smScores, startBtnDisabled,
                   soundManagerEnabled,
                   settingsDisabled, winOverlay, resolved, answered>>

\* mutant: pausing leaves the countdown running
TogglePauseKeepsCountdown ==
    /\ IF gameStatus = "playing"
       THEN /\ gameStatus' = "paused"
            /\ nextTimeouts' = LeftPlaying(nextTimeouts)
            /\ UNCHANGED <<timerInterval, timeRemaining, liveIntervals>>
       ELSE IF gameStatus = "paused"
       THEN /\ gameStatus' = "playing"
            /\ SetTimer(IF settings.timerEnabled
                        THEN StartTimer(TimerNow, settings.timerValue)
                        ELSE TimerNow)
            /\ UNCHANGED nextTimeouts
       ELSE UNCHANGED <<gameStatus, timerInterval, timeRemaining,
                        liveIntervals, nextTimeouts>>
    /\ UNCHANGED <<currentPlayer, ropePosition, scores, settings,
                   currentQuestion, stats, smScores, startBtnDisabled,
                   soundManagerEnabled,
                   settingsDisabled, winOverlay, resolved, answered>>

TogglePause ==
    /\ IF gameStatus = "playing"
       THEN /\ gameStatus' = "paused"
            /\ SetTimer(StopTimer(TimerNow))
            /\ nextTimeouts' = LeftPlaying(nextTimeouts)
       ELSE IF gameStatus = "paused"
       THEN /\ gameStatus' = "playing"
            /\ SetTimer(IF settings.timerEnabled
                        THEN StartTimer(TimerNow, settings.timerValue)
                        ELSE TimerNow)
            /\ UNCHANGED nextTimeouts
       ELSE UNCHANGED <<gameStatus, timerInterval, timeRemaining,
                        liveIntervals, nextTimeouts>>
    /\ UNCHANGED <<currentPlayer, ropePosition, scores, settings,
                   currentQuestion, stats, smScores, startBtnDisabled,
                   soundManagerEnabled,
                   settingsDisabled, winOverlay, resolved, answered>>

\* mutant: resetGame forgets scoreManager.reset()
ResetModulesKeepScores ==
    /\ currentPlayer' = 1
    /\ ropePosition' = 0
    /\ scores' = DefaultScores
    /\ settings' = DefaultSettings
    /\ gameStatus' = "idle"
    /\ currentQuestion' = DefaultQuestion
    /\ stats' = DefaultStats
    /\ UNCHANGED smScores

\* mutant: GameState.reset() leaves the stats as they are
ResetModulesKeepStats ==
    /\ currentPlayer' = 1
    /\ ropePosition' = 0
    /\ scores' = DefaultScores
    /\ settings' = DefaultSettings
    /\ gameStatus' = "idle"
    /\ currentQuestion' = DefaultQuestion
    /\ smScores' = DefaultScores
    /\ UNCHANGED stats

\* GameState.reset() and ScoreManager.reset()
ResetModules ==
    /\ currentPlayer' = 1
    /\ ropePosition' = 0
    /\ scores' = DefaultScores
    /\ settings' = DefaultSettings
    /\ gameStatus' = "idle"
    /\ currentQuestion' = DefaultQuestion
    /\ stats' = DefaultStats
    /\ smScores' = DefaultScores

ResetGame ==
    /\ SetTimer(StopTimer(TimerNow))
    /\ ResetModules
    /\ winOverlay' = "hidden"
    /\ settingsDisabled' = FALSE
    /\ startBtnDisabled' = FALSE
    /\ UNCHANGED soundManagerEnabled
    /\ nextTimeouts' = AfterReset(nextTimeouts)
    /\ resolved' = 0
    /\ answered' = 0

\* the play-again button of the win overlay: hideWinOverlay(), resetGame(),
\* startGame() in one handler
PlayAgain ==
    /\ winOverlay # "hidden"
    /\ currentPlayer' = 1
    /\ ropePosition' = 0
    /\ scores' = DefaultScores
    /\ settings' = DefaultSettings
    /\ stats' = DefaultStats
    /\ smScores' = DefaultScores
    /\ winOverlay' = "hidden"
    /\ nextTimeouts' = AfterReset(nextTimeouts)
    /\ resolved' = 0
    /\ settingsDisabled' = TRUE
    /\ gameStatus' = "playing"
    /\ \E k0, k1, k2 \in RoundDraws :
           NextQuestion(DefaultSettings, StopTimer(TimerNow), k0, k1, k2)
    /\ startBtnDisabled' = TRUE
    /\ UNCHANGED soundManagerEnabled

\* GameState.updateSettings(newSettings), from a settings control
UpdateSettings(newSettings) ==
    /\ settings' = newSettings
    /\ UNCHANGED <<currentPlayer, ropePosition, scores, gameStatus,
                   currentQuestion, stats, smScores, timerInterval,
                   timeRemaining, liveIntervals, nextTimeouts,
                   startBtnDisabled,
                   soundManagerEnabled, settingsDisabled, winOverlay, resolved,
                   answered>>

TimerToggleChange(checked) ==
    /\ ~settingsDisabled
    /\ UpdateSettings([settings EXCEPT !.timerEnabled = checked])

TimerValueChange(text) ==
    /\ ~settingsDisabled
    /\ LET value == ParseInt(text)
       IN  IF ~value.nan /\ value.val >= TimerValueMin
              /\ value.val <= TimerValueMax
           THEN UpdateSettings([settings EXCEPT !.timerValue = value.val])
           ELSE UpdateSettings(settings)

QuestionLimitToggleChange(checked) ==
    UpdateSettings([settings EXCEPT !.questionLimitEnabled = checked])

QuestionLimitChange(text) ==
    LET value == ParseInt(text)
    IN  IF ~value.nan /\ value.val >= QuestionLimitMin
           /\ value.val <= QuestionLimitMax
        THEN UpdateSettings([settings EXCEPT !.questionLimit = value.val])
        ELSE UpdateSettings(settings)

\* A round as its players drive it: the timer, difficulty, operation and
\* sound controls stay as the page loads them.
Next ==
    \/ StartGame
    \/ PlayAgain
    \/ \E raw \in RawInputs(currentQuestion.answer) : HandleSubmit(raw)
    \/ TimerTick
    \/ NextQuestionCallback
    \/ TogglePause
    \/ ResetGame
    \/ \E checked \in BOOLEAN : QuestionLimitToggleChange(checked)
    \/ \E text \in QuestionLimitInputs : QuestionLimitChange(text)

Spec == Init /\ [][Next]_vars

(***************************************************************************)
(* GameState on its own: its methods called directly, in any order and     *)
(* with any arguments, as a caller other than the controller may.          *)
(***************************************************************************)
\* cap on the counters the direct calls drive
MaxDirect == 2

controllerVars ==
    <<smScores, timerInterval, timeRemaining, liveIntervals, nextTimeouts,
      startBtnDisabled,
      soundManagerEnabled, settingsDisabled, winOverlay, resolved, answered>>

GsUpdateRopePosition(isCorrect) ==
    /\ ropePosition' =
           UpdateRopePosition(ropePosition, currentPlayer, isCorrect)
    /\ UNCHANGED <<currentPlayer, scores, settings, gameStatus,
                   currentQuestion, stats, controllerVars>>

GsSwitchPlayer ==
    /\ currentPlayer' = SwitchPlayer(currentPlayer)
    /\ UNCHANGED <<ropePosition, scores, settings, gameStatus,
                   currentQuestion, stats, controllerVars>>

\* incrementScore(player): player 3 stands for any invalid id
GsIncrementScore(player) ==
    /\ scores.player1 + scores.player2 < MaxDirect
    /\ scores' = UpdateScore(scores, player, 1)
    /\ UNCHANGED <<currentPlayer, ropePosition, settings, gameStatus,
                   currentQuestion, stats, controllerVars>>

GsUpdateStats(isCorrect, isTimeout) ==
    /\ stats.totalQuestions < MaxDirect
    /\ stats' = UpdateStats(stats, isCorrect, isTimeout)
    /\ UNCHANGED <<currentPlayer, ropePosition, scores, settings, gameStatus,
                   currentQuestion, controllerVars>>

\* start(), pause(), resume() and end(): none checks the status it leaves
GsSetStatus(status) ==
    /\ gameStatus' = status
    /\ UNCHANGED <<currentPlayer, ropePosition, scores, settings,
                   currentQuestion, stats, controllerVars>>

GsReset ==
    /\ currentPlayer' = 1
    /\ ropePosition' = 0
    /\ scores' = DefaultScores
    /\ settings' = DefaultSettings
    /\ gameStatus' = "idle"
    /\ currentQuestion' = DefaultQuestion
    /\ stats' = DefaultStats
    /\ UNCHANGED controllerVars

NextGameState ==
    \/ \E isCorrect \in BOOLEAN : GsUpdateRopePosition(isCorrect)
    \/ GsSwitchPlayer
    \/ \E player \in 1 .. 3 : GsIncrementScore(player)
    \/ \E isCorrect, isTimeout \in BOOLEAN : GsUpdateStats(isCorrect, isTimeout)
    \/ \E status \in {"playing", "paused", "ended"} : GsSetStatus(status)
    \/ GsReset

SpecGameState == Init /\ [][NextGameState]_vars

(***************************************************************************)
(* A round nobody answers, set up through the timer and question-limit     *)
(* fields of the settings panel: every question runs into its timeout      *)
(* unless the timer is switched off.                                       *)
(***************************************************************************)
SettingsLimitInputs ==
    QuestionLimitInputs \cup {<<"1", "0", "0", ".", "5">>}

NextSettings ==
    \/ StartGame
    \/ TimerTick
    \/ NextQuestionCallback
    \/ TogglePause
    \/ ResetGame
    \/ \E checked \in BOOLEAN : TimerToggleChange(checked)
    \/ \E text \in TimerValueInputs : TimerValueChange(text)
    \/ \E text \in SettingsLimitInputs : QuestionLimitChange(text)

SpecSettings == Init /\ [][NextSettings]_vars

(***************************************************************************)
(* First questions: the difficulty and the operation are chosen while      *)
(* idle, startGame draws the round's first question with any draws, and    *)
(* the players type decimals at and around the tolerance of validateAnswer.*)
(***************************************************************************)
SetDifficulty(difficulty) ==
    /\ ~settingsDisabled
    /\ UpdateSettings([settings EXCEPT !.difficulty = difficulty])

SetOperation(operation) ==
    /\ ~settingsDisabled
    /\ UpdateSettings([settings EXCEPT !.operation = operation])

\* the last width digits of n, with leading zeros
RECURSIVE Padded(_, _)
Padded(n, width) ==
    IF width = 0 THEN <<>>
    ELSE Append(Padded(n \div 10, width - 1), Digits[(n % 10) + 1])

\* what a player types for the decimal units / Scale, all FracDigits
\* decimals written out
DecimalText(units) ==
    (IF units < 0 THEN <<"-">> ELSE <<>>)
        \o Numeral(Abs(units) \div Scale) \o <<".">>
        \o Padded(Abs(units) % Scale, FracDigits)

\* distances from the right answer, in thousandths
AnswerOffsets == {-11, -10, -9, -1, 0, 1, 9, 10, 11}

TypedUnits(answer, offset) ==
    (IF answer = JsNull THEN 0 ELSE answer.val * Scale)
        + offset * (Scale \div 1000)

NotNumbers == {<<>>, <<"a">>}

AnswerInputs(answer) ==
    {Str(text) : text \in NotNumbers}
        \cup {Str(DecimalText(TypedUnits(answer, offset))) :
                  offset \in AnswerOffsets}

NextQuestions ==
    \/ \E difficulty \in {"easy", "medium", "hard"} :
           SetDifficulty(difficulty)
    \/ \E operation \in {"addition", "subtraction", "multiplication",
                           "division", "mixed"} : SetOperation(operation)
    \/ StartGameWith(RandomDraws)
    \/ \E raw \in AnswerInputs(currentQuestion.answer) : HandleSubmit(raw)
    \/ ResetGame

SpecQuestions == Init /\ [][NextQuestions]_vars

(***************************************************************************)
(* The sound switch: the sound button toggles SoundManager.enabled and     *)
(* copies it into settings.soundEnabled; a round is played and reset       *)
(* beside it.                                                              *)
(***************************************************************************)
\* SoundManager.toggleSound: the new value of the flag
SmToggleSound(enabled) == ~enabled

ToggleSound ==
    LET enabled == SmToggleSound(soundManagerEnabled)
    IN  /\ soundManagerEnabled' = enabled
        /\ settings' = [settings EXCEPT !.soundEnabled = enabled]
        /\ UNCHANGED <<currentPlayer, ropePosition, scores, gameStatus,
                       currentQuestion, stats, smScores, timerInterval,
                       timeRemaining, liveIntervals, nextTimeouts,
                       startBtnDisabled, settingsDisabled, winOverlay,
                       resolved, answered>>

NextSound ==
    \/ ToggleSound
    \/ StartGame
    \/ \E raw \in RawInputs(currentQuestion.answer) : HandleSubmit(raw)
    \/ NextQuestionCallback
    \/ ResetGame

SpecSound == Init /\ [][NextSound]_vars

(***************************************************************************)
(* The round with its ScoreManager in other hands: the page keeps the game *)
(* as window.mathGame, so a script of the page can call                    *)
(* mathGame.scoreManager.updateScore beside the players' submits.          *)
(***************************************************************************)
\* cap on the sum of the two scores: a direct call runs only while it fits
MaxScore == 5

\* scoreManager.updateScore(player), called from outside the controller
SmUpdateScore(player) ==
    /\ smScores.player1 + smScores.player2 < MaxScore
    /\ smScores' = UpdateScore(smScores, player, 1)
    /\ UNCHANGED <<currentPlayer, ropePosition, scores, settings, gameStatus,
                   currentQuestion, stats, timerInterval, timeRemaining,
                   liveIntervals, nextTimeouts, startBtnDisabled,
                   soundManagerEnabled, settingsDisabled, winOverlay,
                   resolved, answered>>

NextExposed ==
    \/ QuestionLimitToggleChange(TRUE)
    \/ \E text \in QuestionLimitInputs : QuestionLimitChange(text)
    \/ StartGame
    \/ \E player \in {1, 2} : SmUpdateScore(player)
    \/ \E raw \in RawInputs(currentQuestion.answer) : HandleSubmit(raw)
    \/ NextQuestionCallback

SpecExposed == Init /\ [][NextExposed]_vars

(***************************************************************************)
(* A round left running: no pause and no reset, the timer enabled as the   *)
(* page loads it.  The browser runs a registered interval's callback every *)
(* second and a pending setTimeout callback when its delay is over, so the *)
(* tick and the delayed callback are each taken if they stay enabled.      *)
(***************************************************************************)
NextLive ==
    \/ StartGame
    \/ \E raw \in RawInputs(currentQuestion.answer) : HandleSubmit(raw)
    \/ TimerTick
    \/ NextQuestionCallback

SpecLive ==
    /\ Init
    /\ [][NextLive]_vars
    /\ WF_vars(TimerTick)
    /\ WF_vars(NextQuestionCallback)

(***************************************************************************)
(* Properties.                                                             *)
(***************************************************************************)
\* a step that runs one resolution sequence (processAnswer)
ResolutionStep == resolved' = resolved + 1

\* a step in which the oldest pending next-question callback runs
CallbackStep ==
    nextTimeouts # <<>> /\ Len(nextTimeouts') = Len(nextTimeouts) - 1

RopeDecides(pos) == pos <= -WIN_THRESHOLD \/ pos >= WIN_THRESHOLD

\* the round fields at GameState.reset's and ScoreManager.reset's defaults
RoundAtDefaults ==
    /\ gameStatus = "idle"
    /\ ropePosition = 0
    /\ currentPlayer = 1
    /\ scores = DefaultScores
    /\ smScores = DefaultScores
    /\ stats = DefaultStats
    /\ currentQuestion = DefaultQuestion

AllAtDefaults == RoundAtDefaults /\ settings = DefaultSettings

\* a step of one of the settings controls
SettingsStep ==
    \/ \E checked \in BOOLEAN : QuestionLimitToggleChange(checked)
    \/ \E text \in QuestionLimitInputs : QuestionLimitChange(text)

\* C1: after any number of updateRopePosition calls, by either player and
\* with either outcome, ropePosition is an integer in [-10, 10].
C1_RopeInRange == ropePosition \in RopeMin .. RopeMax

\* C1 witness: the rope at its extreme, where only the clamp holds it
C1_Witness == ropePosition = RopeMax

\* C2: in every reachable state totalQuestions is the sum of correctAnswers,
\* wrongAnswers and timeouts, the timeout path's two updateStats calls
\* included.
C2_StatsSum ==
    stats.totalQuestions =
        stats.correctAnswers + stats.wrongAnswers + stats.timeouts

\* C2 witness: a round with a timeout and a correct answer counted
C2_Witness == stats.timeouts > 0 /\ stats.correctAnswers > 0

\* C3: between the presentation of a question and the presentation of the
\* next, at most one resolution sequence runs for it.
C3_OneResolutionPerQuestion == answered <= 1

\* C4: a submit while the status is not playing changes nothing: stats,
\* scores, rope, player, status, question and countdown stay, and no
\* next-question delay is scheduled.
C4_SubmitIgnored ==
    [][(/\ gameStatus # "playing"
        /\ \E raw \in RawInputs(currentQuestion.answer) : HandleSubmit(raw))
       => UNCHANGED vars]_vars

\* C4 witness: a round paused after a resolution, with its delay pending
C4_Witness ==
    gameStatus = "paused" /\ nextTimeouts # <<>> /\ stats.totalQuestions > 0

\* C5: a resolution that leaves the rope at -8 or below ends the round with
\* player1 as winner, at 8 or above with player2; the countdown is then
\* stopped, the player is not switched and no next question is scheduled; a
\* resolution that leaves the rope within [-7, 7] ends the round only through
\* the question limit.
C5_RopeWin ==
    [][ResolutionStep =>
        /\ ropePosition' <= -WIN_THRESHOLD
               => gameStatus' = "ended" /\ winOverlay' = "player1"
        /\ ropePosition' >= WIN_THRESHOLD
               => gameStatus' = "ended" /\ winOverlay' = "player2"
        /\ RopeDecides(ropePosition')
               => /\ timerInterval' = 0
                  /\ liveIntervals' = {}
                  /\ currentPlayer' = currentPlayer
                  /\ Len(nextTimeouts') = Len(nextTimeouts)
        /\ (~RopeDecides(ropePosition') /\ gameStatus' = "ended")
               => /\ settings.questionLimitEnabled
                  /\ stats'.totalQuestions >= settings.questionLimit
                  /\ smScores'.player1 # smScores'.player2]_vars

\* C5 witness: a round player 1 has won by the rope
C5_Witness ==
    /\ gameStatus = "ended"
    /\ ropePosition <= -WIN_THRESHOLD
    /\ winOverlay = "player1"

\* C6: with the question limit L enabled and no rope win, the resolution of
\* the L-th (or a later) question ends the round when the scores differ, the
\* higher score winning, and the round never ends through the limit before L
\* questions have been resolved.
C6_LimitEndsAtL ==
    [][(ResolutionStep /\ ~RopeDecides(ropePosition')) =>
        /\ (/\ settings.questionLimitEnabled
            /\ resolved' >= settings.questionLimit
            /\ smScores'.player1 # smScores'.player2)
               => /\ gameStatus' = "ended"
                  /\ winOverlay' = IF smScores'.player1 > smScores'.player2
                                   THEN "player1" ELSE "player2"
        /\ gameStatus' = "ended" => resolved' >= settings.questionLimit]_vars

\* C7: a resolution that reaches or has passed the enabled question limit
\* without a rope win continues the round when the scores are tied (status
\* playing, player switched, next question scheduled) and ends it with the
\* higher-scoring player as winner when they differ.
C7_TieContinues ==
    [][(/\ ResolutionStep
        /\ ~RopeDecides(ropePosition')
        /\ settings.questionLimitEnabled
        /\ stats'.totalQuestions >= settings.questionLimit) =>
        IF smScores'.player1 = smScores'.player2
        THEN /\ gameStatus' = "playing"
             /\ currentPlayer' # currentPlayer
             /\ nextTimeouts' = Append(nextTimeouts, "fresh")
        ELSE /\ gameStatus' = "ended"
             /\ winOverlay' = IF smScores'.player1 > smScores'.player2
                              THEN "player1" ELSE "player2"]_vars

\* C7 witness: a round still played past its enabled limit, the scores tied
C7_Witness ==
    /\ gameStatus = "playing"
    /\ settings.questionLimitEnabled
    /\ stats.totalQuestions > settings.questionLimit
    /\ stats.timeouts = 0
    /\ smScores.player1 = smScores.player2
    /\ answered = 1

\* C8 as stated: resetGame leaves the round and the settings at their
\* defaults, and all of them stay there until the next startGame.
C8_DefaultsUntilStart ==
    [][/\ ResetGame => AllAtDefaults'
       /\ (AllAtDefaults /\ gameStatus' # "playing") => AllAtDefaults']_vars

\* C8 amended: resetGame leaves the round and the settings at their defaults;
\* the round fields stay there until the next startGame, and the settings
\* change only by a settings control, resetGame or the play-again button.
C8_ResetDefaults ==
    [][/\ ResetGame => AllAtDefaults'
       /\ (RoundAtDefaults /\ gameStatus' # "playing") => RoundAtDefaults'
       /\ settings' # settings
              => (SettingsStep \/ ResetGame \/ PlayAgain)]_vars

\* C8 witness: a round reset in mid-play, its next-question delay pending
C8_Witness ==
    /\ AllAtDefaults
    /\ nextTimeouts # <<>>
    /\ timeRemaining < DefaultTimerValue

\* C9: after resetGame no countdown is active, and a next-question callback
\* scheduled before the reset changes nothing when it runs.
C9_ResetCancelsTimers ==
    [][/\ ResetGame => (timerInterval' = 0 /\ liveIntervals' = {})
       /\ (CallbackStep /\ Head(nextTimeouts) = "reset")
              => UNCHANGED <<roundVars, settings, timerInterval,
                             timeRemaining, liveIntervals, answered>>]_vars

\* C10: a next-question callback during whose delay the status has left
\* playing issues no new question and starts no countdown.
C10_InterruptedDelayIsDropped ==
    [][(CallbackStep /\ Head(nextTimeouts) # "fresh")
       => UNCHANGED <<currentQuestion, answered, timerInterval,
                      timeRemaining, liveIntervals>>]_vars

\* a step in which handleTimeout runs
TimeoutStep == stats'.timeouts = stats.timeouts + 1

\* a step in which the countdown's tick takes the time left from 1 to 0
CountdownExpires ==
    liveIntervals # {} /\ timeRemaining = 1 /\ timeRemaining' = 0

\* what a resolution does after the rope has moved: the win check, the limit
\* check and the player switch, as processAnswer orders them
ResolutionTail ==
    IF ropePosition' <= -WIN_THRESHOLD
    THEN gameStatus' = "ended" /\ winOverlay' = "player1"
    ELSE IF ropePosition' >= WIN_THRESHOLD
    THEN gameStatus' = "ended" /\ winOverlay' = "player2"
    ELSE IF /\ settings.questionLimitEnabled
            /\ stats'.totalQuestions >= settings.questionLimit
            /\ smScores'.player1 # smScores'.player2
    THEN /\ gameStatus' = "ended"
         /\ winOverlay' = IF smScores'.player1 > smScores'.player2
                          THEN "player1" ELSE "player2"
    ELSE /\ gameStatus' = "playing"
         /\ currentPlayer' # currentPlayer
         /\ nextTimeouts' = Append(nextTimeouts, "fresh")

\* C11: at most one countdown is active at any time, the controller's handle
\* names it, and none is active while the round is paused.
C11_OneCountdown ==
    /\ Cardinality(liveIntervals) <= 1
    /\ liveIntervals = IF timerInterval = 0 THEN {} ELSE {timerInterval}
    /\ gameStatus = "paused" => liveIntervals = {}

\* C11 witness: a countdown running for a question that is already answered,
\* which only a pause and resume inside the next-question delay produces
C11_Witness ==
    /\ gameStatus = "playing"
    /\ answered = 1
    /\ liveIntervals # {}
    /\ nextTimeouts # <<>>

\* C12: every status change is idle to playing by startGame, playing to
\* paused or paused to playing by the pause button, playing to ended by a
\* resolution, any status to idle by resetGame, or ended to playing by the
\* play-again button, which runs resetGame and startGame in one handler and
\* so starts the new round from the defaults.
C12_StatusTransitions ==
    [][gameStatus' # gameStatus =>
        \/ gameStatus = "idle" /\ gameStatus' = "playing" /\ StartGame
        \/ gameStatus = "playing" /\ gameStatus' = "paused"
        \/ gameStatus = "paused" /\ gameStatus' = "playing"
        \/ gameStatus = "playing" /\ gameStatus' = "ended" /\ ResolutionStep
        \/ gameStatus' = "idle" /\ ResetGame
        \/ /\ gameStatus = "ended" /\ gameStatus' = "playing"
           /\ winOverlay # "hidden"
           /\ ropePosition' = 0 /\ currentPlayer' = 1
           /\ stats' = DefaultStats /\ smScores' = DefaultScores
           /\ settings' = DefaultSettings]_vars

\* C12 witness: a second round under way, started after a reset that found a
\* next-question delay pending
C12_Witness ==
    /\ gameStatus = "playing"
    /\ stats = DefaultStats
    /\ nextTimeouts # <<>>
    /\ Head(nextTimeouts) = "reset"

\* C13: the countdown reaching zero is a timeout and nothing else is; a
\* timeout happens while playing, stops the countdown, adds one to
\* stats.timeouts, changes no score, moves the rope one unit toward the
\* current player's opponent and then runs the win check, the limit check and
\* the player switch.
C13_Timeout ==
    [][/\ CountdownExpires <=> TimeoutStep
       /\ TimeoutStep =>
            /\ gameStatus = "playing"
            /\ ResolutionStep
            /\ timerInterval' = 0
            /\ liveIntervals' = {}
            /\ smScores' = smScores
            /\ scores' = scores
            /\ ropePosition' =
                   ropePosition + (IF currentPlayer = 1 THEN 1 ELSE -1)
            /\ ResolutionTail]_vars

\* C13 witness: a round that a timeout has ended
C13_Witness == gameStatus = "ended" /\ timeRemaining = 0 /\ stats.timeouts > 0

\* C14: every resolution adds exactly one to totalQuestions and one to
\* exactly one of correctAnswers, wrongAnswers and timeouts, and a timeout
\* adds nothing to wrongAnswers.
C14_OneCountPerResolution ==
    [][ResolutionStep =>
        /\ stats'.totalQuestions = stats.totalQuestions + 1
        /\ (stats'.correctAnswers - stats.correctAnswers)
           + (stats'.wrongAnswers - stats.wrongAnswers)
           + (stats'.timeouts - stats.timeouts) = 1
        /\ TimeoutStep => stats'.wrongAnswers = stats.wrongAnswers]_vars

\* C15: currentPlayer is 1 or 2; a resolution that ends the round keeps it;
\* one that does not toggles it, and is the only toggle for the question on
\* display (answered counts the resolutions run for that question); nothing
\* but a resolution, resetGame or the play-again button changes it.
C15_PlayerToggle ==
    [][/\ currentPlayer' \in {1, 2}
       /\ ResolutionStep =>
            IF gameStatus' = "ended"
            THEN currentPlayer' = currentPlayer
            ELSE currentPlayer' = 3 - currentPlayer /\ answered' = 1
       /\ currentPlayer' # currentPlayer
            => (ResolutionStep \/ ResetGame \/ PlayAgain)]_vars

\* C16: a settings control used while the status is playing or paused leaves
\* the settings unchanged.
C16_SettingsLocked ==
    [][(gameStatus \in {"playing", "paused"} /\ SettingsStep)
       => settings' = settings]_vars

\* C17: the pause button pressed while paused returns the status to playing;
\* with the timer enabled one countdown then runs, from the full
\* settings.timerValue; with the timer disabled none runs.
C17_ResumeRestartsCountdown ==
    [][/\ (gameStatus = "paused" /\ TogglePause) => gameStatus' = "playing"
       /\ (gameStatus = "paused" /\ gameStatus' = "playing") =>
            IF settings.timerEnabled
            THEN /\ timeRemaining' = settings.timerValue
                 /\ timerInterval' # 0
                 /\ liveIntervals' = {timerInterval'}
            ELSE /\ timerInterval' = 0
                 /\ liveIntervals' = {}]_vars

\* C17 witness: after a timeout (no time left) and a pause, the resumed round
\* counts down from the full timerValue the settings panel had set
C17_Witness ==
    /\ gameStatus = "playing"
    /\ stats.timeouts > 0
    /\ answered = 1
    /\ liveIntervals # {}
    /\ settings.timerValue # DefaultTimerValue
    /\ timeRemaining = settings.timerValue

\* the text is the decimal numeral of n
Denotes(text, n) == text = Numeral(n)

\* C18: a timerValue or questionLimit text that is not an integer of the
\* range (5..60, 5..100) leaves the settings as they are; one that is
\* replaces that one setting by the integer and nothing else.
C18_SettingsRangeChecked ==
    [][/\ \A text \in TimerValueInputs :
            TimerValueChange(text) =>
                IF \E n \in TimerValueMin .. TimerValueMax : Denotes(text, n)
                THEN \E n \in TimerValueMin .. TimerValueMax :
                        /\ Denotes(text, n)
                        /\ settings' = [settings EXCEPT !.timerValue = n]
                ELSE settings' = settings
       /\ \A text \in SettingsLimitInputs :
            QuestionLimitChange(text) =>
                IF \E n \in QuestionLimitMin .. QuestionLimitMax :
                       Denotes(text, n)
                THEN \E n \in QuestionLimitMin .. QuestionLimitMax :
                        /\ Denotes(text, n)
                        /\ settings' = [settings EXCEPT !.questionLimit = n]
                ELSE settings' = settings]_vars

\* the dividend and the divisor a division question's text shows
TextDividend(text) ==
    LET gap == CHOOSE i \in 1 .. Len(text) :
                   text[i] = " " /\ \A j \in 1 .. (i - 1) : text[j] # " "
    IN  DigitsValue(SubSeq(text, 1, gap - 1))

TextDivisor(text) ==
    LET gap == CHOOSE i \in 1 .. Len(text) :
                   text[i] = " " /\ \A j \in 1 .. (i - 1) : text[j] # " "
    IN  DigitsValue(SubSeq(text, gap + 3, Len(text)))

TextMinuend(text) ==
    LET gap == CHOOSE i \in 1 .. Len(text) :
                   text[i] = " " /\ \A j \in 1 .. (i - 1) : text[j] # " "
    IN  DigitsValue(SubSeq(text, 1, gap - 1))

TextSubtrahend(text) ==
    LET gap == CHOOSE i \in 1 .. Len(text) :
                   text[i] = " " /\ \A j \in 1 .. (i - 1) : text[j] # " "
    IN  IF text[gap + 1] = "-"
        THEN DigitsValue(SubSeq(text, gap + 3, Len(text)))
        ELSE -1

\* C21: every subtraction question shows two operands of the difficulty's
\* range, the first at least the second, and records their difference, which
\* is not negative, as its answer.
C21_SubtractionNonNegative ==
    currentQuestion.operation = "subtraction" =>
        LET minuend == TextMinuend(currentQuestion.text)
            subtrahend == TextSubtrahend(currentQuestion.text)
            range == DifficultyRange(settings.difficulty)
        IN  /\ minuend \in range.min .. range.max
            /\ subtrahend \in range.min .. range.max
            /\ minuend >= subtrahend
            /\ currentQuestion.answer = Num(minuend - subtrahend)
            /\ currentQuestion.answer.val >= 0

\* C21 witness: a hard subtraction question with unequal operands
C21_Witness ==
    /\ currentQuestion.operation = "subtraction"
    /\ settings.difficulty = "hard"
    /\ TextMinuend(currentQuestion.text) > TextSubtrahend(currentQuestion.text)

\* C22: updateRopePosition moves the rope by 2 toward the current player when
\* the answer is correct (-2 for player 1, +2 for player 2) and by 1 toward
\* the opponent when it is wrong (+1 for player 1, -1 for player 2), cut to
\* [-10, 10]; from 0 a correct answer of player 1 gives -2, and from -2 a
\* wrong answer of player 2 gives -3.
C22_RopeMove ==
    [][\A isCorrect \in BOOLEAN :
         GsUpdateRopePosition(isCorrect) =>
            LET moved == ropePosition
                         + (IF isCorrect
                            THEN (IF currentPlayer = 1 THEN -2 ELSE 2)
                            ELSE (IF currentPlayer = 1 THEN 1 ELSE -1))
            IN  /\ ropePosition' = IF moved > 10 THEN 10
                                   ELSE IF moved < -10 THEN -10 ELSE moved
                /\ (ropePosition = 0 /\ currentPlayer = 1 /\ isCorrect)
                       => ropePosition' = -2
                /\ (ropePosition = -2 /\ currentPlayer = 2 /\ ~isCorrect)
                       => ropePosition' = -3]_vars

\* C22 witness: the rope at -3 with player 2 to move, as after the claim's
\* two answers and the switch back
C22_Witness == ropePosition = -3 /\ currentPlayer = 2

\* C23: a correct answer adds exactly 1 to the score of the player whose
\* turn it is when it is submitted and leaves the other score alone; a wrong
\* answer and a timeout leave both scores as they are.
C23_ScoreOnlyForCorrect ==
    [][ResolutionStep =>
          IF /\ ~TimeoutStep
             /\ currentQuestion.answer # JsNull
             /\ HandleSubmit(Str(Numeral(currentQuestion.answer.val)))
          THEN /\ currentPlayer = 1 =>
                      /\ smScores'.player1 = smScores.player1 + 1
                      /\ smScores'.player2 = smScores.player2
               /\ currentPlayer = 2 =>
                      /\ smScores'.player2 = smScores.player2 + 1
                      /\ smScores'.player1 = smScores.player1
          ELSE smScores' = smScores]_vars

\* C23 witness: both players have scored, and a wrong answer and a timeout
\* have been resolved beside
C23_Witness ==
    /\ smScores.player1 > 0
    /\ smScores.player2 > 0
    /\ stats.timeouts > 0
    /\ stats.wrongAnswers > stats.timeouts

\* C24: two questions presented one after the other are addressed to
\* different players.  Each resolution that does not end the round switches
\* the player, and answered counts the resolutions run since the question on
\* display was presented, so the question a delayed callback presents goes to
\* the other player exactly when answered is odd.
C24_TurnsAlternate ==
    [][(CallbackStep /\ gameStatus = "playing") =>
          /\ answered % 2 = 1
          /\ currentPlayer' = currentPlayer]_vars

\* C25: a countdown interval is live only while the status is playing, so the
\* timeout never resolves a question in idle, paused or ended.
C25_CountdownOnlyWhilePlaying ==
    (liveIntervals # {} \/ timerInterval # 0) => gameStatus = "playing"

\* C25 witness: the countdown one tick from the timeout, in playing
C25_Witness ==
    gameStatus = "playing" /\ liveIntervals # {} /\ timeRemaining = 1

\* C26: the two ScoreManager scores add up to stats.correctAnswers, and each
\* is a natural number.
C26_ScoresSumToCorrect ==
    /\ smScores.player1 \in Nat
    /\ smScores.player2 \in Nat
    /\ smScores.player1 + smScores.player2 = stats.correctAnswers

\* C26 witness: two correct answers, both of player 1, with player 2's wrong
\* answer between them
C26_Witness ==
    smScores.player1 = 2 /\ smScores.player2 = 0 /\ stats.wrongAnswers > 0

\* C27: through the controller the rope stays within [-9, 9], and within
\* [-7, 7] while the status is playing or paused, so the cut to [-10, 10]
\* never changes a value.
C27_RopeWithinNine ==
    /\ ropePosition \in -9 .. 9
    /\ gameStatus \in {"playing", "paused"} => ropePosition \in -7 .. 7
    /\ ClampNone(ropePosition) = Clamp(ropePosition)

\* C27 witness: a round ended with the rope at distance 9
C27_Witness ==
    gameStatus = "ended" /\ (ropePosition = 9 \/ ropePosition = -9)

\* C28: a resolution that both leaves the rope at distance 8 or more and
\* reaches the question limit ends the round for the player on whose side the
\* rope is, whatever the scores.
C28_RopeBeforeLimit ==
    [][(/\ ResolutionStep
        /\ RopeDecides(ropePosition')
        /\ settings.questionLimitEnabled
        /\ stats'.totalQuestions >= settings.questionLimit) =>
           /\ gameStatus' = "ended"
           /\ winOverlay' = IF ropePosition' < 0 THEN "player1"
                                                 ELSE "player2"]_vars

\* C28 witness: the round ended at the limit with the rope on player 1's side
\* and player 1 declared winner while player 2 has the higher score
C28_Witness ==
    /\ gameStatus = "ended"
    /\ settings.questionLimitEnabled
    /\ stats.totalQuestions >= settings.questionLimit
    /\ ropePosition <= -WIN_THRESHOLD
    /\ winOverlay = "player1"
    /\ smScores.player2 > smScores.player1

\* C29: with the timer enabled and the status staying playing, every
\* presented question is eventually resolved, by a submit or by the timeout,
\* and after a resolution that does not end the round a next question is
\* presented.  A question can be resolved only while it is on display, so the
\* delayed callback may put the next question in its place only after a
\* resolution has run for it.
C29_PresentedIsResolved ==
    [][(/\ CallbackStep
        /\ gameStatus = "playing"
        /\ settings.timerEnabled) => answered >= 1]_vars

\* C30: settings.soundEnabled of the game state equals SoundManager.enabled in
\* every state reached by sound toggles and resets.
C30_SoundInSync == settings.soundEnabled = soundManagerEnabled

====
